---- MODULE Spec2Model ----
(***************************************************************************)
(* Pick-and-place simulation (backend/sim.py) with its coordinate mapper   *)
(* (backend/coordinate_mapper.py).                                         *)
(*                                                                         *)
(* Lengths are in millimetres, so 0.06 m is 60 and a squared distance is   *)
(* in mm^2.  A position is a triple <<x, y, z>>.  The gripper command is   *)
(* in tenths, so action['gripper'] = 0.5 is 5.                             *)
(*                                                                         *)
(* The physics engine is an external library.  Its state is modelled as    *)
(* the set of live bodies with their poses and masses, the set of live     *)
(* user constraints and the connection flag.  Its integrator is modelled   *)
(* by Integrate: a body held by a fixed joint sits at the joint's pivot in *)
(* the parent frame, a free dynamic body keeps its x and y and either      *)
(* keeps its height or comes to rest on the surface below it, a body of    *)
(* mass 0 never moves.                                                     *)
(*                                                                         *)
(* Spec is one simulation instance between its construction and its        *)
(* close().  SpecMapper is one CoordinateMapper and the conversions asked  *)
(* of it; there call holds the annotation and the arguments, result the    *)
(* value returned.  SpecClose, SpecMalformed, SpecObservation, SpecProcess *)
(* and SpecTool are the instance with close(), with malformed actions,     *)
(* with the observation builder, several instances in one process, and     *)
(* one session of the calibration tool.                                    *)
(***************************************************************************)
EXTENDS Integers, Sequences, FiniteSets, TLC

\* ------------------------------------------------------------------ bounds

\* step() calls explored after one reset()
MaxSteps == 4

\* PickPlaceSimulation instances constructed in one process
MaxInstances == 3

\* how far (mm) failed step() calls may carry the gripper position past the
\* x bound of the workspace before the exploration stops
MaxOvershoot == 100

\* ------------------------------------------------------- program constants

\* Optional[int] fields: None is encoded as -1 (engine ids are >= 0)
None == -1

TABLE_HEIGHT == 750
TABLE_HALF_X == 600
TABLE_HALF_Y == 400
TABLE_HALF_Z == 25
MARKER_HEIGHT == 120
GRIPPER_RADIUS == 25
GRASP_DISTANCE_THRESHOLD == 60
MARKER_MASS == 50
NUM_SUBSTEPS == 4
SETTLE_TICKS == 20

\* workspace clamp of step()
X_MIN == -500
X_MAX == 500
Y_MIN == -300
Y_MAX == 300
Z_MIN == 820
Z_MAX == 1200

\* CoordinateMapper z-levels and image size
TABLE_SURFACE_Z == 810
OBJECT_ON_TABLE_Z == 860
FLOOR_Z == 20
GRIPPER_START_Z == 880
IMAGE_SIZE == 224
TABLE_DIAMETER_MM == 600
DEFAULT_PIXELS_PER_METER == 100

\* ------------------------------------------------------------ vector helpers

Add(a, b) == <<a[1] + b[1], a[2] + b[2], a[3] + b[3]>>

Sub(a, b) == <<a[1] - b[1], a[2] - b[2], a[3] - b[3]>>

\* np.linalg.norm(a - b) squared
Dist2(a, b) ==
    LET d == Sub(a, b) IN d[1] * d[1] + d[2] * d[2] + d[3] * d[3]

\* np.clip(v, lo, hi)
Clip(v, lo, hi) == IF v < lo THEN lo ELSE IF v > hi THEN hi ELSE v

MaxOf(S) == CHOOSE m \in S : \A s \in S : s <= m

MinOf(S) == CHOOSE m \in S : \A s \in S : m <= s

\* int(v) of a quotient n / d with d > 0: truncation toward zero
TruncDiv(n, d) == IF n >= 0 THEN n \div d ELSE -((-n) \div d)

\* --------------------------------------------------- manual calibrations

Labels == {"object_to_pickup", "obstacle_1", "obstacle_2", "gripper_start", "target_zone"}

\* The generated world_calibration_manual.MANUAL_CALIBRATIONS: clicks of the
\* calibration tool scaled to 224 x 224, one annotation per calibrated world.
\* World 1 puts the pick object under the gripper, world 2 puts an obstacle
\* nearer to the gripper than the pick object, world 3 has the gripper start
\* far below the objects in the image.
MANUAL_CALIBRATIONS ==
    [w \in {1, 2, 3} |->
        CASE w = 1 -> [object_to_pickup |-> <<100, 100>>, obstacle_1 |-> <<70, 110>>,
                       obstacle_2 |-> <<130, 90>>, gripper_start |-> <<100, 100>>,
                       target_zone |-> <<60, 190>>]
          [] w = 2 -> [object_to_pickup |-> <<103, 100>>, obstacle_1 |-> <<100, 100>>,
                       obstacle_2 |-> <<160, 100>>, gripper_start |-> <<100, 100>>,
                       target_zone |-> <<50, 170>>]
          [] w = 3 -> [object_to_pickup |-> <<100, 100>>, obstacle_1 |-> <<90, 100>>,
                       obstacle_2 |-> <<110, 100>>, gripper_start |-> <<100, 160>>,
                       target_zone |-> <<65, 185>>]]

\* world_config.WORLD_CALIBRATIONS (pixels_per_meter 150.0, 165.0, 140.0)
WORLD_CALIBRATIONS ==
    [w \in {1, 2, 3} |->
        CASE w = 1 -> [world_id |-> 1, table_center_px |-> <<75, 137>>, table_radius_px |-> 45,
                       floor_center_px |-> <<60, 190>>, pixels_per_meter |-> 150]
          [] w = 2 -> [world_id |-> 2, table_center_px |-> <<70, 105>>, table_radius_px |-> 50,
                       floor_center_px |-> <<50, 170>>, pixels_per_meter |-> 165]
          [] w = 3 -> [world_id |-> 3, table_center_px |-> <<70, 137>>, table_radius_px |-> 42,
                       floor_center_px |-> <<65, 185>>, pixels_per_meter |-> 140]]

\* mutant: an unknown world id gets the entry of world 1
get_world_calibration_Default(registry, world_id) ==
    [ok |-> TRUE, value |-> registry[IF world_id \in DOMAIN registry THEN world_id ELSE 1]]

\* get_world_calibration: the entry, or ValueError with the registry's keys
\* in its message
get_world_calibration(registry, world_id) ==
    IF world_id \notin DOMAIN registry
    THEN [ok |-> FALSE, available |-> DOMAIN registry]
    ELSE [ok |-> TRUE, value |-> registry[world_id]]

\* world ids a caller may pass to reset(); 4 has no calibration
WorldIds == {1, 2, 3, 4}

\* get_manual_positions raises ValueError for these
UnknownWorld(world_id) == world_id \notin DOMAIN MANUAL_CALIBRATIONS

get_manual_positions(world_id) == MANUAL_CALIBRATIONS[world_id]

\* --------------------------------------------------------- CoordinateMapper

TablePositions(mp) ==
    <<mp.object_to_pickup, mp.obstacle_1, mp.obstacle_2, mp.gripper_start>>

\* (int(np.mean(xs)), int(np.mean(ys)))
table_center_px(mp) ==
    LET t == TablePositions(mp)
    IN <<TruncDiv(t[1][1] + t[2][1] + t[3][1] + t[4][1], 4),
         TruncDiv(t[1][2] + t[2][2] + t[3][2] + t[4][2], 4)>>

\* max(table_span_x, table_span_y)
table_span_px(mp) ==
    LET t  == TablePositions(mp)
        xs == {t[i][1] : i \in 1..4}
        ys == {t[i][2] : i \in 1..4}
        sx == MaxOf(xs) - MinOf(xs)
        sy == MaxOf(ys) - MinOf(ys)
    IN IF sx > sy THEN sx ELSE sy

\* mutant: the scale is the span over the diameter even when the span is 0
PixelsPerTable_NoDefault(span) == span

\* pixels_per_meter (line 75) as pixels per table diameter (0.6 m):
\* table_span_px, or 100.0 px/m when the span is 0
PixelsPerTable(span) ==
    IF span > 0 THEN span ELSE (DEFAULT_PIXELS_PER_METER * TABLE_DIAMETER_MM) \div 1000

\* offset_px / pixels_per_meter in millimetres.  The quotient is exact for
\* the annotations above (their span divides 600).
PxToMM(offset_px, span) ==
    TruncDiv(offset_px * TABLE_DIAMETER_MM, PixelsPerTable(span))

\* the tags for which pixel_to_world_3d raises ValueError (lines 102-110)
UnknownLevel(z_level) == z_level \notin {"table", "floor", "gripper"}

\* mutant: 'table' means the table top, not the height an object rests at
ZOfLevel_TableSurface(z_level) ==
    CASE z_level = "table" -> TABLE_SURFACE_Z
      [] z_level = "floor" -> FLOOR_Z
      [] z_level = "gripper" -> GRIPPER_START_Z

ZOfLevel(z_level) ==
    CASE z_level = "table" -> OBJECT_ON_TABLE_Z
      [] z_level = "floor" -> FLOOR_Z
      [] z_level = "gripper" -> GRIPPER_START_Z

pixel_to_world_3d(mp, pixel_pos, z_level) ==
    LET c    == table_center_px(mp)
        span == table_span_px(mp)
    IN <<PxToMM(pixel_pos[1] - c[1], span),
         -PxToMM(pixel_pos[2] - c[2], span),
         ZOfLevel(z_level)>>

\* mutant: the default scale is used whatever the annotation's span
MMToPx_DefaultScale(v_mm, span) ==
    TruncDiv(v_mm * DEFAULT_PIXELS_PER_METER, 1000)

\* int(v * pixels_per_meter) for v in millimetres: truncation toward zero of
\* the exact product (a double can fall just short of a whole product and
\* lose one more pixel toward the centre)
MMToPx(v_mm, span) ==
    TruncDiv(v_mm * PixelsPerTable(span), TABLE_DIAMETER_MM)

\* px, py before the clamp (lines 123-131): z is dropped
ProjectedPixel(mp, world_pos) ==
    LET c    == table_center_px(mp)
        span == table_span_px(mp)
    IN <<c[1] + MMToPx(world_pos[1], span), c[2] + MMToPx(-world_pos[2], span)>>

\* mutant: the projection is returned without the clamp
world_to_pixel_2d_Unclamped(mp, world_pos) == ProjectedPixel(mp, world_pos)

\* np.clip(pixel, 0, IMAGE_SIZE - 1) on both coordinates (lines 133-134)
world_to_pixel_2d(mp, world_pos) ==
    LET px == ProjectedPixel(mp, world_pos)
    IN <<Clip(px[1], 0, IMAGE_SIZE - 1), Clip(px[2], 0, IMAGE_SIZE - 1)>>

\* mutant: the target zone is placed at the table level like the objects
get_initial_object_positions_3d_TargetOnTable(mp) ==
    [object_to_pickup |-> pixel_to_world_3d(mp, mp.object_to_pickup, "table"),
     obstacle_1       |-> pixel_to_world_3d(mp, mp.obstacle_1, "table"),
     obstacle_2       |-> pixel_to_world_3d(mp, mp.obstacle_2, "table"),
     gripper_start    |-> pixel_to_world_3d(mp, mp.gripper_start, "gripper"),
     target_zone      |-> pixel_to_world_3d(mp, mp.target_zone, "table")]

get_initial_object_positions_3d(mp) ==
    [object_to_pickup |-> pixel_to_world_3d(mp, mp.object_to_pickup, "table"),
     obstacle_1       |-> pixel_to_world_3d(mp, mp.obstacle_1, "table"),
     obstacle_2       |-> pixel_to_world_3d(mp, mp.obstacle_2, "table"),
     gripper_start    |-> pixel_to_world_3d(mp, mp.gripper_start, "gripper"),
     target_zone      |-> pixel_to_world_3d(mp, mp.target_zone, "floor")]

\* ------------------------------------------------------------ physics engine

VARIABLES
    connected,      \* the client handle is connected (p.connect .. p.disconnect)
    bodies,         \* live body id -> [pos, mass]
    freeIds,        \* body ids released by removeBody, most recent first
    constraints     \* live user constraints: [uid, parent, child, pivot]

engineVars == <<connected, bodies, freeIds, constraints>>

TableBody == [pos |-> <<0, 0, TABLE_HEIGHT>>, mass |-> 0]

FloorBody == [pos |-> <<0, 0, 0>>, mass |-> 0]

\* height at which a marker lying on the table / on the floor has its centre
TableRestZ == TABLE_HEIGHT + TABLE_HALF_Z + MARKER_HEIGHT \div 2

FloorRestZ == MARKER_HEIGHT \div 2

OverTable(pos) ==
    /\ -TABLE_HALF_X <= pos[1] /\ pos[1] <= TABLE_HALF_X
    /\ -TABLE_HALF_Y <= pos[2] /\ pos[2] <= TABLE_HALF_Y

RestZ(pos) == IF OverTable(pos) THEN TableRestZ ELSE FloorRestZ

\* createMultiBody: the id of the new body, reusing the most recently freed one
NewBodyId(bs, free) ==
    IF free # <<>> THEN Head(free) ELSE MaxOf(DOMAIN bs) + 1

\* createMultiBody for each of specs in order: [bodies, free, ids]
RECURSIVE CreateBodies(_, _, _)
CreateBodies(bs, free, specs) ==
    IF specs = <<>>
    THEN [bodies |-> bs, free |-> free, ids |-> <<>>]
    ELSE LET id   == NewBodyId(bs, free)
             rest == CreateBodies(bs @@ (id :> Head(specs)),
                                  IF free # <<>> THEN Tail(free) ELSE free,
                                  Tail(specs))
         IN [rest EXCEPT !.ids = <<id>> \o @]

\* removeBody for each id of ids in order (None entries are skipped by the caller)
RECURSIVE RemoveBodies(_, _, _)
RemoveBodies(bs, free, ids) ==
    IF ids = <<>>
    THEN [bodies |-> bs, free |-> free]
    ELSE LET id == Head(ids)
         IN RemoveBodies([b \in DOMAIN bs \ {id} |-> bs[b]], <<id>> \o free, Tail(ids))

\* createConstraint(parent, -1, child, -1, JOINT_FIXED, .., parentFramePosition, [0,0,0])
NewConstraintUid(cons) ==
    IF cons = {} THEN 1 ELSE MaxOf({c.uid : c \in cons}) + 1

\* removeConstraint(uid)
RemoveConstraint(cons, uid) == {c \in cons : c.uid # uid}

HeldBy(cons, bs, b) ==
    {c \in cons : c.child = b /\ c.parent \in DOMAIN bs}

\* The dynamic bodies the integrator is free to move vertically
Unsettled(bs, cons) ==
    {b \in DOMAIN bs : /\ bs[b].mass > 0
                       /\ HeldBy(cons, bs, b) = {}
                       /\ bs[b].pos[3] # RestZ(bs[b].pos)}

\* One outcome of stepSimulation: the bodies of S come to rest
IntegrateOutcome(bs, cons, S) ==
    [b \in DOMAIN bs |->
        IF bs[b].mass = 0 THEN bs[b]
        ELSE IF HeldBy(cons, bs, b) # {}
        THEN LET c == CHOOSE c \in HeldBy(cons, bs, b) : TRUE
             IN [bs[b] EXCEPT !.pos = Add(bs[c.parent].pos, c.pivot)]
        ELSE IF b \in S
        THEN [bs[b] EXCEPT !.pos = <<bs[b].pos[1], bs[b].pos[2], RestZ(bs[b].pos)>>]
        ELSE bs[b]]

\* `ticks` calls of stepSimulation: the set of possible resulting body tables
Integrate(bs, cons, ticks) ==
    IF ticks = 0 THEN {bs}
    ELSE {IntegrateOutcome(bs, cons, S) : S \in {{}, Unsettled(bs, cons)}}

\* ---------------------------------------------------- PickPlaceSimulation

VARIABLES
    object_to_pickup_id, obstacle_1_id, obstacle_2_id, target_marker_id, gripper_id,
    grasp_constraint,
    gripper_pos, gripper_closed, grasped_object_id, step_count,
    call,           \* the last call made on the instance: [op, arg]
    result,         \* what it returned: [ok |-> TRUE, state |-> SimState] or [ok |-> FALSE]
    teardown        \* how the last call removed a grasp constraint from the engine:
                    \* "none" (it removed none), "live" (both linked bodies alive),
                    \* "dangling" (after its bodies were removed), "gone" (the engine
                    \* had already dropped it together with its bodies)

\* The Python process around the instance: the registry of world_config.py and
\* the engine's clients.  clients and sims are the coarse view of several
\* instances in one process (SpecProcess); in the specifications of a single
\* instance they stay as they are at the start.
VARIABLES
    world_calibrations, \* world_config.WORLD_CALIBRATIONS: world id -> WorldCalibration
    clients,            \* engine client id -> [connected, shapes]: the collision
                        \* shapes created in that client so far
    sims                \* instance -> [status, client, shape_client]

procVars == <<world_calibrations, clients, sims>>

\* The calibration tool (calibration_tool.py), a program of its own that
\* writes the annotations the mapper reads.  In the specifications of the
\* simulation and of the mapper it is not running.
VARIABLES
    tool_pc,        \* "idle" before run(), "calibrating" inside the key loop of
                    \* calibrate_world, "finished" after run()
    current_world,  \* CalibrationTool.current_world
    base_image,     \* <<width, height>> of the displayed image, <<>> before one is loaded
    clicks,         \* CalibrationTool.clicks
    calibrations,   \* CalibrationTool.calibrations: world id -> annotation
    saved_file      \* MANUAL_CALIBRATIONS of the written world_calibration_manual.py,
                    \* <<>> while no file was written

toolVars == <<tool_pc, current_world, base_image, clicks, calibrations, saved_file>>

idVars == <<object_to_pickup_id, obstacle_1_id, obstacle_2_id, target_marker_id, gripper_id>>

simVars == <<grasp_constraint, gripper_pos, gripper_closed, grasped_object_id, step_count>>

vars == <<engineVars, idVars, simVars, call, result, teardown, procVars, toolVars>>

\* mutant: both obstacle fields are read from the second obstacle
get_state_SwappedObstacles(bs, ids, gp, grasped, closed, sc) ==
    [gripper_pos          |-> gp,
     object_to_pickup_pos |-> bs[ids[1]].pos,
     obstacle_1_pos       |-> bs[ids[3]].pos,
     obstacle_2_pos       |-> bs[ids[3]].pos,
     target_pos           |-> bs[ids[4]].pos,
     grasped_object_id    |-> grasped,
     gripper_closed       |-> closed,
     step_count           |-> sc]

\* SimState, as get_state() builds it from the engine's poses and the fields
get_state(bs, ids, gp, grasped, closed, sc) ==
    [gripper_pos          |-> gp,
     object_to_pickup_pos |-> bs[ids[1]].pos,
     obstacle_1_pos       |-> bs[ids[2]].pos,
     obstacle_2_pos       |-> bs[ids[3]].pos,
     target_pos           |-> bs[ids[4]].pos,
     grasped_object_id    |-> grasped,
     gripper_closed       |-> closed,
     step_count           |-> sc]

Returned(state) == [ok |-> TRUE, state |-> state]

Raised == [ok |-> FALSE]

\* physicsClientId when a call does not pass one
DefaultClient == 0

ClientIds == 0..(MaxInstances - 1)

SimIds == 1..MaxInstances

\* a process in which no instance has been constructed yet
ProcessStart ==
    /\ world_calibrations = WORLD_CALIBRATIONS
    /\ clients = [c \in ClientIds |-> [connected |-> FALSE, shapes |-> 0]]
    /\ sims = [i \in SimIds |-> [status |-> "unborn", client |-> None,
                                  shape_client |-> None, steps |-> 0]]

\* CalibrationTool.__init__
ToolStart ==
    /\ tool_pc = "idle"
    /\ current_world = 1
    /\ base_image = <<>>
    /\ clicks = <<>>
    /\ calibrations = <<>>
    /\ saved_file = <<>>

\* __init__: connect, create the table and the floor, no per-episode bodies yet
Constructed ==
    /\ connected = TRUE
    /\ bodies = (0 :> TableBody) @@ (1 :> FloorBody)
    /\ freeIds = <<>>
    /\ constraints = {}
    /\ object_to_pickup_id = None
    /\ obstacle_1_id = None
    /\ obstacle_2_id = None
    /\ target_marker_id = None
    /\ gripper_id = None
    /\ grasp_constraint = None
    /\ gripper_pos = <<0, 0, GRIPPER_START_Z>>
    /\ gripper_closed = FALSE
    /\ grasped_object_id = None
    /\ step_count = 0
    /\ teardown = "none"

Init ==
    /\ Constructed
    /\ ProcessStart
    /\ ToolStart
    /\ call = [op |-> "init", arg |-> 0]
    /\ result = Raised

\* --- reset

\* the values reset() gives the state flags (lines 210-212)
\* mutant: reset() leaves the gripper flag as it was
ResetGripperClosed_Kept == gripper_closed

ResetGripperClosed == FALSE

\* mutant: reset() forgets to clear the grasp state
ResetGraspedObjectId_Stale == grasped_object_id

ResetGraspedObjectId == None

ResetStepCount == 0

\* mutant: the loop leaves the old gripper body in the engine
OldBodies_NoGripper ==
    SelectSeq(<<object_to_pickup_id, obstacle_1_id, obstacle_2_id, target_marker_id>>,
              LAMBDA id : id # None)

\* the old bodies reset() removes: the ids that are not None, in the code's order
OldBodies ==
    SelectSeq(<<object_to_pickup_id, obstacle_1_id, obstacle_2_id,
                target_marker_id, gripper_id>>, LAMBDA id : id # None)

\* the five bodies reset() creates, in the code's order
NewBodies(positions_3d) ==
    <<[pos |-> positions_3d.object_to_pickup, mass |-> MARKER_MASS],
      [pos |-> positions_3d.obstacle_1, mass |-> MARKER_MASS],
      [pos |-> positions_3d.obstacle_2, mass |-> MARKER_MASS],
      [pos |-> positions_3d.target_zone, mass |-> 0],
      [pos |-> positions_3d.gripper_start, mass |-> 0]>>

\* the gripper position reset() starts the episode with (line 198)
ResetGripperPos(positions_3d) == positions_3d.gripper_start

\* the constraints that link a body the engine no longer has
Dangling(cons, bs) ==
    {c \in cons : c.parent \notin DOMAIN bs \/ c.child \notin DOMAIN bs}

\* The engine's constraints once the removeBody loop (lines 152-155) is over:
\* whether removeBody drops the constraints of the body it removes is the
\* engine's business, so both outcomes are possible
ConstraintsAfterRemoveBodies(cons, bs) == {cons, cons \ Dangling(cons, bs)}

\* what removeConstraint(grasp_constraint) (lines 157-159) finds in the engine
ResetTeardown(cons, bs) ==
    IF grasp_constraint = None THEN "none"
    ELSE IF \E c \in Dangling(cons, bs) : c.uid = grasp_constraint THEN "dangling"
    ELSE IF \E c \in cons : c.uid = grasp_constraint THEN "live"
    ELSE "gone"

Reset(world_id) ==
    /\ connected
    /\ ~UnknownWorld(world_id)
    /\ \E positions_3d \in {get_initial_object_positions_3d(get_manual_positions(world_id))} :
       \E removed \in {RemoveBodies(bodies, freeIds, OldBodies)} :
       \E afterBodies \in ConstraintsAfterRemoveBodies(constraints, removed.bodies) :
       \E cons \in {IF grasp_constraint # None
                     THEN RemoveConstraint(afterBodies, grasp_constraint)
                     ELSE afterBodies} :
       \E created \in {CreateBodies(removed.bodies, removed.free, NewBodies(positions_3d))} :
       \E gp \in {ResetGripperPos(positions_3d)} :
          /\ constraints' = cons
          /\ grasp_constraint' = None
          /\ freeIds' = created.free
          /\ object_to_pickup_id' = created.ids[1]
          /\ obstacle_1_id' = created.ids[2]
          /\ obstacle_2_id' = created.ids[3]
          /\ target_marker_id' = created.ids[4]
          /\ gripper_id' = created.ids[5]
          /\ gripper_pos' = gp
          /\ gripper_closed' = ResetGripperClosed
          /\ grasped_object_id' = ResetGraspedObjectId
          /\ step_count' = ResetStepCount
          /\ \E bs \in Integrate(created.bodies, cons, SETTLE_TICKS) :
                /\ bodies' = bs
                /\ result' = Returned(get_state(bs, created.ids, gp, ResetGraspedObjectId,
                                                ResetGripperClosed, ResetStepCount))
          /\ teardown' = ResetTeardown(afterBodies, removed.bodies)
    /\ call' = [op |-> "reset", arg |-> world_id]
    /\ UNCHANGED <<connected, procVars, toolVars>>

\* mutant: the old bodies' constraint is torn down before the world id is looked up
ResetRaises_AfterTeardown(world_id) ==
    /\ UnknownWorld(world_id) \/ ~connected
    /\ call' = [op |-> "reset", arg |-> world_id]
    /\ result' = Raised
    /\ teardown' = "none"
    /\ constraints' = {}
    /\ grasp_constraint' = None
    /\ UNCHANGED <<connected, bodies, freeIds, idVars, gripper_pos, gripper_closed,
                   grasped_object_id, step_count, procVars, toolVars>>

\* reset() raises before touching anything: CoordinateMapper(world_id) raises
\* ValueError for an unknown world, and the first engine call raises on a
\* disconnected client
ResetRaises(world_id) ==
    /\ UnknownWorld(world_id) \/ ~connected
    /\ call' = [op |-> "reset", arg |-> world_id]
    /\ result' = Raised
    /\ teardown' = "none"
    /\ UNCHANGED <<engineVars, idVars, simVars, procVars, toolVars>>

\* --- step

\* action values a caller passes: deltas in mm (2000 is far out of range),
\* gripper in tenths (5 is exactly 0.5)
DeltaXs == {-30, 0, 30, 2000}

DeltaYs == {-2000, 0}

GripperCmds == {5, 10}

\* mutant: the lower z bound lies above the hover height
ClampGripper_HighFloor(pos) ==
    <<Clip(pos[1], X_MIN, X_MAX), Clip(pos[2], Y_MIN, Y_MAX),
      Clip(pos[3], GRIPPER_START_Z + 20, Z_MAX)>>

\* gripper_pos += delta, then np.clip componentwise (lines 234-240)
\* mutant: the y component is not clamped
ClampGripper_XOnly(pos) ==
    <<Clip(pos[1], X_MIN, X_MAX), pos[2], Clip(pos[3], Z_MIN, Z_MAX)>>

ClampGripper(pos) ==
    <<Clip(pos[1], X_MIN, X_MAX), Clip(pos[2], Y_MIN, Y_MAX), Clip(pos[3], Z_MIN, Z_MAX)>>

MovedGripper(pos, dx, dy) == ClampGripper(<<pos[1] + dx, pos[2] + dy, pos[3]>>)

\* mutant: a command of exactly 0.5 closes the gripper
CommandedClosed_AtLeast(g) == g >= 5

\* action['gripper'] > 0.5 (line 243)
CommandedClosed(g) == g > 5

\* mutant: the pick object is missing from the list
GraspableObjects_ObstaclesOnly == <<obstacle_1_id, obstacle_2_id>>

\* mutant: the list is scanned from the far end
GraspableObjects_Reversed == <<obstacle_2_id, obstacle_1_id, object_to_pickup_id>>

\* graspable_objects, in the order the loop scans them (lines 254-258)
GraspableObjects == <<object_to_pickup_id, obstacle_1_id, obstacle_2_id>>

\* mutant: the distance is taken in the x-y plane only
WithinThreshold_XYOnly(gp, obj_pos) ==
    Dist2(<<gp[1], gp[2], 0>>, <<obj_pos[1], obj_pos[2], 0>>)
        < GRASP_DISTANCE_THRESHOLD * GRASP_DISTANCE_THRESHOLD

\* distance < GRASP_DISTANCE_THRESHOLD (lines 263-267)
WithinThreshold(gp, obj_pos) ==
    Dist2(gp, obj_pos) < GRASP_DISTANCE_THRESHOLD * GRASP_DISTANCE_THRESHOLD

\* the object the for loop stops at, or None when it runs to the end
RECURSIVE FirstWithinThreshold(_, _, _)
FirstWithinThreshold(gp, bs, objs) ==
    IF objs = <<>> THEN None
    ELSE IF WithinThreshold(gp, bs[Head(objs)].pos) THEN Head(objs)
    ELSE FirstWithinThreshold(gp, bs, Tail(objs))

\* mutant: the joint is created at the gripper's centre
GraspPivot_Centre == <<0, 0, 0>>

\* parentFramePosition of the fixed joint (line 275)
GraspPivot == <<0, 0, -GRIPPER_RADIUS - MARKER_HEIGHT \div 2>>

\* mutant: the distance test runs before the delta is applied
Grasping_BeforeMove(closed, gp, bs) ==
    /\ closed
    /\ grasped_object_id = None
    /\ FirstWithinThreshold(gripper_pos, bs, GraspableObjects) # None

\* mutant: a grasp needs the flag to go from open to closed
Grasping_EdgeTriggered(closed, gp, bs) ==
    /\ closed
    /\ ~gripper_closed
    /\ grasped_object_id = None
    /\ FirstWithinThreshold(gp, bs, GraspableObjects) # None

\* mutant: the grasp branch does not test that nothing is grasped
Grasping_IgnoresHeld(closed, gp, bs) ==
    closed /\ FirstWithinThreshold(gp, bs, GraspableObjects) # None

\* mutant: the release branch tests the flag of the previous step
Releasing_PreviousFlag(closed) == ~gripper_closed /\ grasped_object_id # None

\* the conditions of the if (line 260, with a break at line 279) and the elif
\* (line 281)
Grasping(closed, gp, bs) ==
    closed /\ grasped_object_id = None /\ FirstWithinThreshold(gp, bs, GraspableObjects) # None

Releasing(closed) == ~closed /\ grasped_object_id # None

\* the if / elif of lines 260-286: [grasped_object_id, grasp_constraint, constraints]
GraspLogic(closed, gp, bs) ==
    IF Grasping(closed, gp, bs)
    THEN LET obj_id == FirstWithinThreshold(gp, bs, GraspableObjects)
             uid    == NewConstraintUid(constraints)
         IN [grasped_object_id |-> obj_id,
             grasp_constraint  |-> uid,
             constraints       |-> constraints \cup
                 {[uid |-> uid, parent |-> gripper_id, child |-> obj_id, pivot |-> GraspPivot]}]
    ELSE IF Releasing(closed)
    THEN [grasped_object_id |-> None,
          grasp_constraint  |-> None,
          constraints       |-> IF grasp_constraint # None
                                THEN RemoveConstraint(constraints, grasp_constraint)
                                ELSE constraints]
    ELSE [grasped_object_id |-> grasped_object_id,
          grasp_constraint  |-> grasp_constraint,
          constraints       |-> constraints]

\* mutant: the pose is written before the delta is applied
WriteGripperPose_BeforeMove(bs, gp) == [bs EXCEPT ![gripper_id].pos = gripper_pos]

\* mutant: the pose is not written to the gripper body
WriteGripperPose_Skipped(bs, gp) == bs

\* resetBasePositionAndOrientation(gripper_id, gripper_pos, ..) (lines 246-251)
WriteGripperPose(bs, gp) == [bs EXCEPT ![gripper_id].pos = gp]

\* mutant: the counter is not advanced
StepCountAfter_Same(sc) == sc

\* step_count += 1 (line 292)
StepCountAfter(sc) == sc + 1

\* the removeConstraint of the release branch (lines 283-284)
StepTeardown(closed, gp, bs) ==
    IF ~Grasping(closed, gp, bs) /\ Releasing(closed) /\ grasp_constraint # None
    THEN "live"
    ELSE "none"

Step(dx, dy, g) ==
    /\ connected
    /\ gripper_id # None
    /\ step_count < MaxSteps
    /\ \E gp \in {MovedGripper(gripper_pos, dx, dy)}, closed \in {CommandedClosed(g)} :
       \E moved \in {WriteGripperPose(bodies, gp)} :
       \E gl \in {GraspLogic(closed, gp, moved)} :
          /\ gripper_pos' = gp
          /\ gripper_closed' = closed
          /\ grasped_object_id' = gl.grasped_object_id
          /\ grasp_constraint' = gl.grasp_constraint
          /\ constraints' = gl.constraints
          /\ step_count' = StepCountAfter(step_count)
          /\ \E bs \in Integrate(moved, gl.constraints, NUM_SUBSTEPS) :
                /\ bodies' = bs
                /\ result' = Returned(get_state(bs, idVars, gp, gl.grasped_object_id,
                                                closed, StepCountAfter(step_count)))
          /\ teardown' = StepTeardown(closed, gp, moved)
    /\ call' = [op |-> "step", arg |-> g]
    /\ UNCHANGED <<connected, freeIds, idVars, procVars, toolVars>>

\* step() on an instance that was never reset (gripper_id is None) or is
\* closed: the position and the flag are already written when the first
\* engine call (line 246) raises
StepRaises(dx, dy, g) ==
    /\ ~connected \/ gripper_id = None
    /\ gripper_pos' = MovedGripper(gripper_pos, dx, dy)
    /\ gripper_closed' = CommandedClosed(g)
    /\ call' = [op |-> "step", arg |-> g]
    /\ result' = Raised
    /\ teardown' = "none"
    /\ UNCHANGED <<engineVars, idVars, grasp_constraint, grasped_object_id, step_count, procVars, toolVars>>

\* the fields of the action dictionary that step() reads, in the order it
\* reads them (lines 234, 235, 243)
ActionFields == <<"delta_x", "delta_y", "gripper">>

\* step(action) with one field missing from the dictionary: the KeyError comes
\* at the statement that reads the field, after the statements before it have
\* written gripper_pos.  Without 'delta_x' nothing is written; without
\* 'delta_y' the x component has the delta added and is not clamped yet;
\* without 'gripper' the position is moved and clamped.  No engine call is
\* reached.
StepMalformed(dx, dy, missing) ==
    /\ gripper_pos[1] + dx <= X_MAX + MaxOvershoot
    /\ gripper_pos[1] + dx >= X_MIN - MaxOvershoot
    /\ gripper_pos' = CASE missing = "delta_x" -> gripper_pos
                         [] missing = "delta_y" ->
                                <<gripper_pos[1] + dx, gripper_pos[2], gripper_pos[3]>>
                         [] missing = "gripper" -> MovedGripper(gripper_pos, dx, dy)
    /\ call' = [op |-> "step", arg |-> None, missing |-> missing]
    /\ result' = Raised
    /\ teardown' = "none"
    /\ UNCHANGED <<engineVars, idVars, grasp_constraint, gripper_closed,
                   grasped_object_id, step_count, procVars, toolVars>>

\* --- get_state, close

\* mutant: get_state() advances the integrator before it reads the poses
GetState_Ticks ==
    /\ connected
    /\ gripper_id # None
    /\ call' = [op |-> "get_state", arg |-> 0]
    /\ \E bs \in Integrate(bodies, constraints, 1) :
          /\ bodies' = bs
          /\ result' = Returned(get_state(bs, idVars, gripper_pos, grasped_object_id,
                                          gripper_closed, step_count))
    /\ teardown' = "none"
    /\ UNCHANGED <<connected, freeIds, constraints, idVars, simVars, procVars, toolVars>>

GetState ==
    /\ connected
    /\ gripper_id # None
    /\ call' = [op |-> "get_state", arg |-> 0]
    /\ result' = Returned(get_state(bodies, idVars, gripper_pos, grasped_object_id,
                                    gripper_closed, step_count))
    /\ teardown' = "none"
    /\ UNCHANGED <<engineVars, idVars, simVars, procVars, toolVars>>

\* get_state() before the first reset (the ids are None) or after close()
GetStateRaises ==
    /\ ~connected \/ gripper_id = None
    /\ call' = [op |-> "get_state", arg |-> 0]
    /\ result' = Raised
    /\ teardown' = "none"
    /\ UNCHANGED <<engineVars, idVars, simVars, procVars, toolVars>>

\* p.disconnect: the engine and everything in it is gone; close() returns no
\* snapshot
Close ==
    /\ connected
    /\ connected' = FALSE
    /\ bodies' = [b \in {} |-> TableBody]
    /\ freeIds' = <<>>
    /\ constraints' = {}
    /\ call' = [op |-> "close", arg |-> 0]
    /\ result' = Raised
    /\ teardown' = "none"
    /\ UNCHANGED <<idVars, simVars, procVars, toolVars>>

CloseRaises ==
    /\ ~connected
    /\ call' = [op |-> "close", arg |-> 0]
    /\ result' = Raised
    /\ teardown' = "none"
    /\ UNCHANGED <<engineVars, idVars, simVars, procVars, toolVars>>

Next ==
    \/ \E w \in WorldIds : Reset(w)
    \/ \E w \in WorldIds : ResetRaises(w)
    \/ \E dx \in DeltaXs, dy \in DeltaYs, g \in GripperCmds : Step(dx, dy, g)
    \/ \E dx \in DeltaXs, dy \in DeltaYs, g \in GripperCmds : StepRaises(dx, dy, g)
    \/ GetState
    \/ GetStateRaises

\* an instance between its construction and its close()
Spec == Init /\ [][Next]_vars

\* an instance from its construction to its close() and the calls made on it
\* after that; the gripper stays where reset() puts it while the instance is
\* open
NextClose ==
    \/ \E w \in {1, 2} : Reset(w)
    \/ \E w \in WorldIds : ResetRaises(w)
    \/ \E g \in GripperCmds : Step(0, 0, g)
    \/ \E dx \in {30, 2000}, g \in GripperCmds : StepRaises(dx, 0, g)
    \/ GetState
    \/ GetStateRaises
    \/ Close
    \/ CloseRaises

SpecClose == Init /\ [][NextClose]_vars

\* an open instance whose caller also passes action dictionaries that lack a
\* field
NextMalformed ==
    \/ Reset(1)
    \/ \E g \in GripperCmds : Step(0, 0, g)
    \/ \E f \in 1..3 : StepMalformed(300, 0, ActionFields[f])
    \/ GetState

SpecMalformed == Init /\ [][NextMalformed]_vars

\* ------------------------------------- several instances in one process

\* createCollisionShape calls of __init__: table, marker, cap and gripper
\* (lines 99-116) and the floor plane (line 129)
ShapesCreated == 5

\* p.connect takes the lowest free client slot
FreeClient ==
    CHOOSE c \in ClientIds :
        /\ ~clients[c].connected
        /\ \A d \in ClientIds : d < c => clients[d].connected

\* PickPlaceSimulation(): p.connect gives the instance its client; gravity,
\* time step, table and floor bodies are addressed to it; the five
\* createCollisionShape calls pass no physicsClientId and go to the default
\* client, which is connected whenever any client is (slot 0 is taken first)
Construct(i) ==
    /\ sims[i].status = "unborn"
    /\ \E c \in {FreeClient} :
          /\ clients' = [[clients EXCEPT ![c].connected = TRUE]
                            EXCEPT ![DefaultClient].shapes = @ + ShapesCreated]
          /\ sims' = [sims EXCEPT ![i] = [status |-> "alive", client |-> c,
                                          shape_client |-> DefaultClient, steps |-> 0]]
    /\ UNCHANGED <<engineVars, idVars, simVars, call, result, teardown, world_calibrations,
                   toolVars>>

\* reset(world_id) of instance i: every engine call passes self.client
ResetSim(i) ==
    /\ sims[i].status \in {"alive", "episode"}
    /\ sims[i].status = "episode" => sims[i].steps > 0
    /\ sims' = [sims EXCEPT ![i].status = "episode", ![i].steps = 0]
    /\ UNCHANGED <<engineVars, idVars, simVars, call, result, teardown,
                   world_calibrations, clients, toolVars>>

\* step(action) of instance i: every engine call passes self.client
StepSim(i) ==
    /\ sims[i].status = "episode"
    /\ sims[i].steps < MaxSteps
    /\ sims' = [sims EXCEPT ![i].steps = @ + 1]
    /\ UNCHANGED <<engineVars, idVars, simVars, call, result, teardown,
                   world_calibrations, clients, toolVars>>

\* close() of instance i: its client is disconnected and the server behind
\* it, with every shape created in it, is gone
CloseSim(i) ==
    /\ sims[i].status \in {"alive", "episode"}
    /\ clients' = [clients EXCEPT ![sims[i].client] = [connected |-> FALSE, shapes |-> 0]]
    /\ sims' = [sims EXCEPT ![i].status = "closed"]
    /\ UNCHANGED <<engineVars, idVars, simVars, call, result, teardown, world_calibrations,
                   toolVars>>

NextProcess ==
    \/ \E i \in SimIds : Construct(i)
    \/ \E i \in SimIds : ResetSim(i)
    \/ \E i \in SimIds : StepSim(i)
    \/ \E i \in SimIds : CloseSim(i)

\* a process constructing, using and closing instances in any order
SpecProcess == Init /\ [][NextProcess]_vars

\* ------------------------------------------------- ObservationBuilder

\* ObservationBuilder.world_to_pixel: the registry's centre and scale,
\* int() of the offsets, np.clip to the image
world_to_pixel(world_pos, calibration) ==
    LET c == calibration.table_center_px
        ppm == calibration.pixels_per_meter
    IN <<Clip(c[1] + TruncDiv(world_pos[1] * ppm, 1000), 0, IMAGE_SIZE - 1),
         Clip(c[2] + TruncDiv(-world_pos[2] * ppm, 1000), 0, IMAGE_SIZE - 1)>>

\* the attributes of the snapshot build_observation reads (lines 207-208)
FieldsRead == {"gripper_pos", "marker_pos"}

\* build_observation(state, world_id) up to the projection of the gripper and
\* the object (lines 196-211), the backgrounds being on disk: ValueError for
\* a world without registry entry, AttributeError for an attribute the
\* snapshot does not have
BuildObservation(world_id) ==
    /\ result.ok
    /\ "state" \in DOMAIN result
    /\ call' = [op |-> "build_observation", arg |-> world_id]
    /\ \E calibration \in {get_world_calibration(world_calibrations, world_id)} :
          result' = IF ~calibration.ok
                    THEN [ok |-> FALSE, error |-> "ValueError"]
                    ELSE IF ~(FieldsRead \subseteq DOMAIN result.state)
                    THEN [ok |-> FALSE, error |-> "AttributeError"]
                    ELSE [ok |-> TRUE,
                          value |-> [gripper_px |-> world_to_pixel(result.state.gripper_pos,
                                                                   calibration.value),
                                     marker_px |-> world_to_pixel(result.state.marker_pos,
                                                                  calibration.value),
                                     goal_px |-> calibration.value.floor_center_px]]
    /\ teardown' = "none"
    /\ UNCHANGED <<engineVars, idVars, simVars, procVars, toolVars>>

\* an episode whose snapshots are handed to the observation builder
NextObservation ==
    \/ \E w \in {1, 2, 3} : Reset(w)
    \/ \E dx \in {0, 30}, g \in GripperCmds : Step(dx, 0, g)
    \/ GetState
    \/ \E w \in WorldIds : BuildObservation(w)

SpecObservation == Init /\ [][NextObservation]_vars

\* ------------------------------------------- CoordinateMapper on its own

\* Annotations a calibration session can produce (five clicks scaled to
\* 224 x 224): the calibrated worlds, and layouts with all table landmarks on
\* one pixel (span 0), one pixel apart, spread over the whole image, and with
\* spans that do not divide the table diameter.
Annotations ==
    {MANUAL_CALIBRATIONS[w] : w \in DOMAIN MANUAL_CALIBRATIONS} \cup
    {[object_to_pickup |-> a, obstacle_1 |-> b, obstacle_2 |-> c,
      gripper_start |-> g, target_zone |-> t] :
        a \in {<<100, 100>>, <<0, 0>>},
        b \in {<<100, 100>>, <<101, 100>>, <<70, 110>>},
        c \in {<<100, 100>>, <<223, 223>>, <<130, 90>>},
        g \in {<<100, 100>>, <<100, 160>>, <<37, 11>>},
        t \in {<<60, 190>>, <<223, 0>>}}

\* pixels a caller converts: the annotation's landmarks and the image corners
QueryPixels(mp) ==
    {mp[l] : l \in DOMAIN mp} \cup {<<0, 0>>, <<223, 0>>, <<0, 223>>, <<223, 223>>}

\* z_level tags a caller passes; the last three are not tags of the mapper
ZLevels == {"table", "floor", "gripper", "table_surface", "ceiling", ""}

\* world points a caller projects, in mm: on and off the table, far outside
\* the image, at two heights
WorldPoints ==
    {<<x, y, z>> : x \in {-5000, -290, -19, 0, 19, 100, 5000},
                   y \in {-5000, -50, 0, 19, 5000},
                   z \in {0, OBJECT_ON_TABLE_Z}}

\* annotation sets with one label missing (an edited calibration file)
IncompleteAnnotations ==
    {[k \in Labels \ {l} |-> MANUAL_CALIBRATIONS[1][k]] : l \in Labels}

\* _infer_world_bounds reads the four table landmarks (lines 49-54); a
\* missing one is a KeyError
ConstructionRaises(positions) ==
    ~({"object_to_pickup", "obstacle_1", "obstacle_2", "gripper_start"} \subseteq DOMAIN positions)

\* CoordinateMapper(world_id): the annotation is held, the bounds are inferred.
\* call.mp is the mapper's manual_positions, empty when no mapper was built.
InitMapper ==
    /\ Constructed
    /\ ProcessStart
    /\ ToolStart
    /\ \E positions \in Annotations \cup IncompleteAnnotations :
          IF ConstructionRaises(positions)
          THEN /\ call = [op |-> "CoordinateMapper", mp |-> <<>>, arg |-> positions]
               /\ result = Raised
          ELSE /\ call = [op |-> "CoordinateMapper", mp |-> positions, arg |-> positions]
               /\ result = [ok |-> TRUE,
                            value |-> [table_center_px |-> table_center_px(positions),
                                       table_span_px |-> table_span_px(positions),
                                       pixels_per_table |->
                                           PixelsPerTable(table_span_px(positions))]]

\* a mapper object exists
MapperBuilt == DOMAIN call.mp # {}

\* offset / pixels_per_meter (lines 98-99) is a ZeroDivisionError for a scale of 0
DividesByZero(mp) == PixelsPerTable(table_span_px(mp)) = 0

MapperPixelToWorld(pixel_pos, z_level) ==
    /\ MapperBuilt
    /\ call' = [op |-> "pixel_to_world_3d", mp |-> call.mp,
                pixel |-> pixel_pos, z_level |-> z_level]
    /\ result' = IF DividesByZero(call.mp) \/ UnknownLevel(z_level)
                 THEN Raised
                 ELSE [ok |-> TRUE, value |-> pixel_to_world_3d(call.mp, pixel_pos, z_level)]
    /\ UNCHANGED <<engineVars, idVars, simVars, teardown, procVars, toolVars>>

MapperWorldToPixel(world_pos) ==
    /\ MapperBuilt
    /\ call' = [op |-> "world_to_pixel_2d", mp |-> call.mp, world |-> world_pos]
    /\ result' = [ok |-> TRUE, value |-> world_to_pixel_2d(call.mp, world_pos)]
    /\ UNCHANGED <<engineVars, idVars, simVars, teardown, procVars, toolVars>>

\* get_initial_object_positions_3d: a missing landmark is a KeyError
MapperInitialPositions ==
    /\ MapperBuilt
    /\ call' = [op |-> "get_initial_object_positions_3d", mp |-> call.mp]
    /\ result' = IF Labels \subseteq DOMAIN call.mp /\ ~DividesByZero(call.mp)
                 THEN [ok |-> TRUE, value |-> get_initial_object_positions_3d(call.mp)]
                 ELSE Raised
    /\ UNCHANGED <<engineVars, idVars, simVars, teardown, procVars, toolVars>>

\* world_config.get_world_calibration(world_id)
GetWorldCalibration(world_id) ==
    /\ call' = [op |-> "get_world_calibration", mp |-> call.mp, arg |-> world_id]
    /\ result' = get_world_calibration(world_calibrations, world_id)
    /\ UNCHANGED <<engineVars, idVars, simVars, teardown, procVars, toolVars>>

NextMapper ==
    \/ \E pixel_pos \in QueryPixels(call.mp), z_level \in ZLevels :
          MapperPixelToWorld(pixel_pos, z_level)
    \/ \E world_pos \in WorldPoints : MapperWorldToPixel(world_pos)
    \/ MapperInitialPositions
    \/ \E world_id \in WorldIds : GetWorldCalibration(world_id)

\* a mapper between its construction and any number of conversions
SpecMapper == InitMapper /\ [][NextMapper]_vars

\* ------------------------------------------------------ calibration tool

\* self.labels, in the order the clicks are asked for
ToolLabels == <<"object_to_pickup", "obstacle_1", "obstacle_2", "gripper_start", "target_zone">>

\* the worlds run() calibrates, in its order
ToolWorlds == <<1, 2, 3>>

\* target_size of the stored coordinates
TARGET_SIZE == 224

\* images wider than this are shrunk for display
MAX_DISPLAY_WIDTH == 800

\* <<width, height>> of the exterior image found for a world; <<>> when there
\* is no image or it cannot be read
ImagesOnDisk == {<<>>, <<224, 224>>, <<1600, 1200>>}

\* base_image after the resize of calibrate_world: fx = fy = 800 / w for an
\* image wider than 800, the new size rounded to whole pixels
Displayed(img) ==
    IF img[1] > MAX_DISPLAY_WIDTH
    THEN <<MAX_DISPLAY_WIDTH,
           (2 * img[2] * MAX_DISPLAY_WIDTH + img[1]) \div (2 * img[1])>>
    ELSE img

\* mouse events the window delivers; the positions are pixels of the
\* displayed image, here its first and its last pixel
MouseEvents == {"LBUTTONDOWN", "MOUSEMOVE"}

ClickPoints(size) ==
    IF size = <<>> THEN {} ELSE {<<0, 0>>, <<size[1] - 1, size[2] - 1>>}

\* keys the loop of calibrate_world may read; "x" stands for any other key
Keys == {"s", "r", "q", "x"}

\* mutant: the callback takes clicks without looking at their number
MouseAccepts_NoLimit(event, cl) == event = "LBUTTONDOWN"

\* the condition of mouse_callback
MouseAccepts(event, cl) == event = "LBUTTONDOWN" /\ Len(cl) < Len(ToolLabels)

\* mutant: the coordinate is stored as clicked, without scaling to 224
ScaledCoordinate_Raw(v, extent) == v

\* int((v / extent) * target_size).  The quotient is taken exactly, which is
\* what the doubles give for the first and the last pixel of the image sizes
\* above; for some pixels in between a double falls just short of a whole
\* product and int() stores one less (x = 61 of 224 is stored as 60).
ScaledCoordinate(v, extent) == (v * TARGET_SIZE) \div extent

\* scaled_clicks: label i gets click i, scaled from the displayed image to
\* 224 x 224
ScaledClicks(cl, size) ==
    [l \in {ToolLabels[i] : i \in 1..Len(cl)} |->
        LET i == CHOOSE i \in 1..Len(cl) : ToolLabels[i] = l
        IN <<ScaledCoordinate(cl[i][1], size[1]), ScaledCoordinate(cl[i][2], size[2])>>]

\* what run() writes when its loop is over: the file, when there is anything
\* to save
SavedFile(cal) == IF DOMAIN cal # {} THEN cal ELSE saved_file

\* run() from iteration k of its loop to the next wait for a key:
\* calibrate_world(ToolWorlds[k]) loads and shows the image, or returns False
\* without one, which ends the loop; after the loop the file is written
RunLoop(k, cal) ==
    IF k > Len(ToolWorlds)
    THEN /\ tool_pc' = "finished"
         /\ saved_file' = SavedFile(cal)
         /\ UNCHANGED <<current_world, base_image, clicks>>
    ELSE \E img \in ImagesOnDisk :
            /\ current_world' = ToolWorlds[k]
            /\ clicks' = <<>>
            /\ IF img = <<>>
               THEN /\ tool_pc' = "finished"
                    /\ saved_file' = SavedFile(cal)
                    /\ UNCHANGED base_image
               ELSE /\ tool_pc' = "calibrating"
                    /\ base_image' = Displayed(img)
                    /\ UNCHANGED saved_file

\* tool.run() up to the first wait for a key
Run ==
    /\ tool_pc = "idle"
    /\ RunLoop(1, calibrations)
    /\ UNCHANGED <<calibrations, engineVars, idVars, simVars, call, result, teardown, procVars>>

\* mouse_callback(event, x, y, ..)
MouseCallback(event, x, y) ==
    /\ tool_pc = "calibrating"
    /\ clicks' = IF MouseAccepts(event, clicks) THEN Append(clicks, <<x, y>>) ELSE clicks
    /\ UNCHANGED <<tool_pc, current_world, base_image, calibrations, saved_file,
                   engineVars, idVars, simVars, call, result, teardown, procVars>>

\* one turn of the key loop of calibrate_world with the key read
KeyPress(key) ==
    /\ tool_pc = "calibrating"
    /\ IF key = "s" /\ Len(clicks) = Len(ToolLabels)
       THEN \E cal \in {[w \in DOMAIN calibrations \cup {current_world} |->
                            IF w = current_world THEN ScaledClicks(clicks, base_image)
                            ELSE calibrations[w]]} :
               /\ calibrations' = cal
               /\ RunLoop((CHOOSE k \in 1..Len(ToolWorlds) : ToolWorlds[k] = current_world) + 1,
                          cal)
       ELSE IF key = "r"
       THEN /\ clicks' = <<>>
            /\ UNCHANGED <<tool_pc, current_world, base_image, calibrations, saved_file>>
       ELSE IF key = "q"
       THEN /\ tool_pc' = "finished"
            /\ saved_file' = SavedFile(calibrations)
            /\ UNCHANGED <<current_world, base_image, clicks, calibrations>>
       ELSE UNCHANGED toolVars
    /\ UNCHANGED <<engineVars, idVars, simVars, call, result, teardown, procVars>>

NextTool ==
    \/ Run
    \/ \E event \in MouseEvents, xy \in ClickPoints(base_image) : MouseCallback(event, xy[1], xy[2])
    \/ \E key \in Keys : KeyPress(key)

\* one session of the calibration tool
SpecTool == Init /\ [][NextTool]_vars

\* ------------------------------------------------------------------ claims

MovableIds == {object_to_pickup_id, obstacle_1_id, obstacle_2_id}

StepReturned == call.op = "step" /\ result.ok

\* squared grasp threshold, 0.06 m
Threshold2 == 60 * 60

\* C1: grasped_object_id is None or the id of exactly one of the three movable
\* bodies that are live in the engine; it never names a removed body, the
\* target marker or the gripper, and at most one object is attached.
C1_Exclusivity ==
    /\ grasped_object_id # None =>
          /\ grasped_object_id \in MovableIds
          /\ grasped_object_id \in DOMAIN bodies
          /\ bodies[grasped_object_id].mass > 0
          /\ grasped_object_id \notin {target_marker_id, gripper_id}
          /\ Cardinality(MovableIds) = 3
    /\ Cardinality({c.child : c \in constraints}) <= 1
    /\ \A c \in constraints : c.child = grasped_object_id
    /\ result.ok => result.state.grasped_object_id = grasped_object_id

\* an object is held in an episode that followed an earlier one
C1_Witness ==
    /\ grasped_object_id # None
    /\ freeIds = <<>>
    /\ object_to_pickup_id > gripper_id
    /\ constraints # {}

\* C2: a step commanded closed with nothing grasped and the pick object
\* strictly within 0.06 m of the moved, clamped gripper returns a snapshot
\* whose grasped_object_id is the pick object's id.
C2_GraspPickObject ==
    [][(/\ call'.op = "step" /\ result'.ok
        /\ grasped_object_id = None
        /\ call'.arg > 5
        /\ Dist2(gripper_pos', bodies[object_to_pickup_id].pos) < Threshold2)
       => /\ result'.state.grasped_object_id = object_to_pickup_id
          /\ grasped_object_id' = object_to_pickup_id]_vars

\* the pick object was grasped by the first step after a reset
C2_Witness ==
    /\ StepReturned /\ call.arg > 5
    /\ step_count = 1
    /\ result.state.grasped_object_id = object_to_pickup_id

\* C3: a step commanded open while an object is grasped removes the grasp
\* constraint from the engine and clears grasped_object_id, whatever the
\* positions are.
C3_ReleaseUnconditional ==
    [][(/\ call'.op = "step" /\ result'.ok
        /\ grasped_object_id # None
        /\ call'.arg <= 5)
       => /\ grasped_object_id' = None
          /\ grasp_constraint' = None
          /\ \A c \in constraints' : c.uid # grasp_constraint
          /\ constraints' = {}
          /\ result'.state.grasped_object_id = None]_vars

\* a release has just happened: the object still sits at the joint's pivot
C3_Witness ==
    /\ StepReturned /\ call.arg <= 5
    /\ grasped_object_id = None
    /\ \E b \in MovableIds : bodies[b].pos[3] < TableRestZ

\* C4: the object grasped is the first one within the threshold in the order
\* object_to_pickup, obstacle_1, obstacle_2: an obstacle is grasped only if
\* every object before it is at 0.06 m or more, however near the obstacle is.
C4_FixedPriority ==
    [][(/\ call'.op = "step" /\ result'.ok
        /\ grasped_object_id = None
        /\ call'.arg > 5)
       => LET near(b) == Dist2(gripper_pos', bodies[b].pos) < Threshold2
          IN /\ near(object_to_pickup_id) => grasped_object_id' = object_to_pickup_id
             /\ grasped_object_id' = obstacle_1_id =>
                    near(obstacle_1_id) /\ ~near(object_to_pickup_id)
             /\ grasped_object_id' = obstacle_2_id =>
                    /\ near(obstacle_2_id)
                    /\ ~near(object_to_pickup_id) /\ ~near(obstacle_1_id)
             /\ (~near(object_to_pickup_id) /\ near(obstacle_1_id)) =>
                    grasped_object_id' = obstacle_1_id]_vars

\* the pick object was grasped while obstacle_1 was nearer to the gripper
C4_Witness ==
    /\ StepReturned /\ step_count = 1
    /\ grasped_object_id = object_to_pickup_id
    /\ Dist2(gripper_pos, bodies[obstacle_1_id].pos) < Threshold2
    /\ gripper_pos[1] = bodies[obstacle_1_id].pos[1]

\* an obstacle was grasped
C4_WitnessObstacle == StepReturned /\ grasped_object_id = obstacle_1_id


\* C5: while an object is grasped, a step commanded closed leaves
\* grasped_object_id and the grasp constraint as they are, wherever the
\* objects are; the grasp changes only by a step commanded open or a reset.
C5_GraspPersists ==
    [][/\ (/\ call'.op = "step" /\ result'.ok
           /\ grasped_object_id # None
           /\ call'.arg > 5)
          => /\ grasped_object_id' = grasped_object_id
             /\ grasp_constraint' = grasp_constraint
             /\ constraints' = constraints
             /\ result'.state.grasped_object_id = grasped_object_id
       /\ (grasped_object_id # None /\ grasped_object_id' # grasped_object_id)
          => \/ call'.op = "reset"
             \/ call'.op = "step" /\ call'.arg <= 5]_vars

\* an object stayed grasped over a closed step while another movable object
\* was within the threshold and the held one was not
C5_Witness ==
    /\ StepReturned /\ call.arg > 5
    /\ step_count >= 2
    /\ grasped_object_id # None
    /\ Dist2(gripper_pos, bodies[grasped_object_id].pos) >= Threshold2
    /\ \E b \in MovableIds \ {grasped_object_id} :
          Dist2(gripper_pos, bodies[b].pos) < Threshold2

\* C6: a step commanded closed with nothing grasped and no movable object
\* within 0.06 m creates no constraint and leaves grasped_object_id None; of
\* the grasp state only gripper_closed changes, to TRUE.
C6_CloseOnNothing ==
    [][(/\ call'.op = "step" /\ result'.ok
        /\ grasped_object_id = None
        /\ call'.arg > 5
        /\ \A b \in MovableIds : Dist2(gripper_pos', bodies[b].pos) >= Threshold2)
       => /\ constraints' = constraints
          /\ grasp_constraint' = grasp_constraint
          /\ grasped_object_id' = None
          /\ result'.state.grasped_object_id = None
          /\ gripper_closed' = TRUE]_vars

\* the gripper closed on nothing, with an object right below it but out of
\* reach in height
C6_Witness ==
    /\ StepReturned /\ call.arg > 5
    /\ grasped_object_id = None
    /\ gripper_closed
    /\ constraints = {}
    /\ \E b \in MovableIds :
          /\ bodies[b].pos[1] = gripper_pos[1]
          /\ bodies[b].pos[2] = gripper_pos[2]

InWorkspace(pos) ==
    /\ X_MIN <= pos[1] /\ pos[1] <= X_MAX
    /\ Y_MIN <= pos[2] /\ pos[2] <= Y_MAX
    /\ Z_MIN <= pos[3] /\ pos[3] <= Z_MAX

\* C7: after any step(), whatever the deltas, the gripper position is inside
\* x in [-0.5, 0.5], y in [-0.3, 0.3], z in [0.82, 1.2], and a step on a
\* reset instance returns a snapshot instead of raising.
C7_ClampedAfterStep ==
    call.op = "step" =>
        /\ InWorkspace(gripper_pos)
        /\ result.ok => InWorkspace(result.state.gripper_pos)
        /\ (connected /\ gripper_id # None) => result.ok

\* a step drove the gripper into the corner of the workspace
C7_Witness ==
    /\ StepReturned
    /\ gripper_pos[1] = X_MAX
    /\ gripper_pos[2] = Y_MIN

\* C8: every snapshot returned by reset() or step() has the gripper inside the
\* workspace bounds, the first one after reset included.
C8_SnapshotInWorkspace ==
    result.ok => InWorkspace(result.state.gripper_pos)

GraspHappens == grasped_object_id = None /\ grasped_object_id' # None

\* C10 as stated: the joint is created at the offset the object has from the
\* gripper at the grasp tick, so attaching does not displace the object.
C10_CurrentOffset ==
    [][GraspHappens
       => /\ \A c \in constraints' :
               c.pivot = Sub(bodies[grasped_object_id'].pos, gripper_pos')
          /\ bodies'[grasped_object_id'].pos = bodies[grasped_object_id'].pos]_vars

\* C10 as amended: the joint is created with the gripper as parent, the
\* grasped object as child and the fixed pivot (0, 0, -0.085 m), i.e.
\* GRIPPER_RADIUS + MARKER_HEIGHT / 2 below the gripper, whatever the offset
\* of the object at the grasp tick is.
C10_FixedPivot ==
    [][GraspHappens
       => /\ constraints' =
               {[uid |-> grasp_constraint', parent |-> gripper_id,
                 child |-> grasped_object_id', pivot |-> <<0, 0, -85>>]}
          /\ grasp_constraint' # None]_vars

\* a grasp happened at an offset other than the pivot: the object was moved
C10_Witness ==
    /\ StepReturned /\ step_count = 1
    /\ grasped_object_id # None
    /\ \E c \in constraints : c.child = grasped_object_id
    /\ bodies[grasped_object_id].pos[3] = GRIPPER_START_Z - 85

\* C11: when reset() has returned, whatever state it was called in (an object
\* grasped under a closed gripper included), the engine holds no grasp
\* constraint, grasp_constraint and grasped_object_id are None, gripper_closed
\* is False and step_count is 0, in the fields and in the snapshot returned.
C11_ResetClearsGrasp ==
    (call.op = "reset" /\ result.ok) =>
        /\ constraints = {}
        /\ grasp_constraint = None
        /\ grasped_object_id = None
        /\ ~gripper_closed
        /\ step_count = 0
        /\ result.state.grasped_object_id = None
        /\ ~result.state.gripper_closed
        /\ result.state.step_count = 0

\* a reset() that returned and found a grasp constraint to tear down
C11_Witness ==
    /\ call.op = "reset"
    /\ result.ok
    /\ teardown \in {"dangling", "gone"}
    /\ constraints = {}

\* C12: reset() removes an existing grasp constraint before it removes the
\* bodies the constraint links: no constraint is ever live while it refers to
\* a removed body, and reset() never removes a constraint that is already gone.
C12_ConstraintBeforeBodies ==
    call.op = "reset" => teardown \in {"none", "live"}

\* C13: every step() that returns adds exactly 1 to step_count, every reset()
\* that returns sets it to 0, nothing else changes it, and the snapshot a call
\* returns carries the counter's value.
C13_StepCount ==
    [][/\ (call'.op = "step" /\ result'.ok) => step_count' = step_count + 1
       /\ (call'.op = "reset" /\ result'.ok) => step_count' = 0
       /\ ~(call'.op \in {"step", "reset"} /\ result'.ok) => step_count' = step_count
       /\ result'.ok => result'.state.step_count = step_count']_vars

\* the second step() of an episode has returned
C13_Witness ==
    /\ StepReturned
    /\ step_count = 2
    /\ result.state.step_count = 2

\* C14: after every step(action) the gripper_closed flag, in the snapshot and
\* in the field, is True exactly when action['gripper'] > 0.5; a command of
\* exactly 0.5 opens the gripper.
C14_FlagFollowsCommand ==
    StepReturned =>
        /\ result.state.gripper_closed <=> call.arg > 5
        /\ gripper_closed <=> call.arg > 5

\* a step() commanded exactly 0.5 while an object was held: the flag is False
\* and the object was released
C14_Witness ==
    /\ StepReturned
    /\ call.arg = 5
    /\ ~result.state.gripper_closed
    /\ teardown = "live"

\* C15: a get_state() that follows a call that returned a snapshot (step(),
\* reset() or another get_state()) returns a snapshot equal to it in every
\* field.
C15_SameSnapshot ==
    [][(call'.op = "get_state" /\ result'.ok /\ result.ok)
            => result'.state = result.state]_vars

\* get_state() has returned while the integrator could still move a body
C15_Witness ==
    /\ call.op = "get_state"
    /\ result.ok
    /\ Unsettled(bodies, constraints) # {}

\* C16: get_state() changes no field of the simulation and nothing in the
\* engine; the object and target poses it reports are the engine's current
\* poses and the gripper pose is the last commanded one.
C16_PureRead ==
    [][call'.op = "get_state" =>
          /\ UNCHANGED <<engineVars, idVars, simVars>>
          /\ result'.ok =>
                /\ result'.state.gripper_pos = gripper_pos
                /\ result'.state.object_to_pickup_pos = bodies[object_to_pickup_id].pos
                /\ result'.state.obstacle_1_pos = bodies[obstacle_1_id].pos
                /\ result'.state.obstacle_2_pos = bodies[obstacle_2_id].pos
                /\ result'.state.target_pos = bodies[target_marker_id].pos
                /\ result'.state.grasped_object_id = grasped_object_id
                /\ result'.state.gripper_closed = gripper_closed
                /\ result'.state.step_count = step_count]_vars

\* get_state() has returned during a grasp
C16_Witness ==
    /\ call.op = "get_state"
    /\ result.ok
    /\ grasped_object_id # None
    /\ result.state.grasped_object_id = grasped_object_id

Abs(v) == IF v < 0 THEN -v ELSE v

\* C17: for every annotation, every landmark pixel p of it and every z-level,
\* world_to_pixel_2d(pixel_to_world_3d(p, level)) is within 1 of p in each
\* coordinate.
C17_PixelRoundTrip ==
    (/\ call.op = "pixel_to_world_3d"
     /\ result.ok
     /\ \E l \in DOMAIN call.mp : call.pixel = call.mp[l]) =>
        LET back == world_to_pixel_2d(call.mp, result.value)
        IN /\ Abs(back[1] - call.pixel[1]) <= 1
           /\ Abs(back[2] - call.pixel[2]) <= 1

\* a landmark far from the centre was converted under a span that does not
\* divide the table diameter, and the round trip lost a pixel
C17_Witness ==
    /\ call.op = "pixel_to_world_3d"
    /\ result.ok
    /\ table_span_px(call.mp) = 223
    /\ call.pixel = call.mp.obstacle_2
    /\ world_to_pixel_2d(call.mp, result.value) # call.pixel

\* C18: for the mapper of every calibrated scene and every world point that
\* projects inside the image, pixel_to_world_3d(world_to_pixel_2d(w), 'table')
\* is within 10 mm of w in the x-y plane.
C18_WorldRoundTrip ==
    (/\ call.op = "world_to_pixel_2d"
     /\ call.mp \in {MANUAL_CALIBRATIONS[w] : w \in DOMAIN MANUAL_CALIBRATIONS}
     /\ ProjectedPixel(call.mp, call.world) = result.value) =>
        LET back == pixel_to_world_3d(call.mp, result.value, "table")
        IN Dist2(<<back[1], back[2], 0>>, <<call.world[1], call.world[2], 0>>) <= 10 * 10

\* C19: world_to_pixel_2d returns for every world position; both coordinates
\* lie in 0..223 and are the points of that range nearest to the unclamped
\* projection; the z component of the input has no effect.
C19_AlwaysInImage ==
    call.op = "world_to_pixel_2d" =>
        /\ result.ok
        /\ LET px == ProjectedPixel(call.mp, call.world)
           IN \A i \in {1, 2} :
                 /\ result.value[i] \in 0..223
                 /\ \A q \in 0..223 :
                       Abs(result.value[i] - px[i]) <= Abs(q - px[i])
        /\ \A z \in {0, 20, 860, 880} :
              world_to_pixel_2d(call.mp, <<call.world[1], call.world[2], z>>) = result.value

\* a point far outside the image was projected onto the image's edge
C19_Witness ==
    /\ call.op = "world_to_pixel_2d"
    /\ call.world[1] = 5000
    /\ call.world[2] = 5000
    /\ result.value = <<223, 0>>

\* C20: pixel_to_world_3d raises for every z_level other than 'table', 'floor'
\* and 'gripper'; for these three the z it returns is 0.86, 0.02 and 0.88
\* whatever the pixel.
C20_ZLevels ==
    call.op = "pixel_to_world_3d" =>
        /\ result.ok <=> call.z_level \in {"table", "floor", "gripper"}
        /\ (result.ok /\ call.z_level = "table") => result.value[3] = 860
        /\ (result.ok /\ call.z_level = "floor") => result.value[3] = 20
        /\ (result.ok /\ call.z_level = "gripper") => result.value[3] = 880

\* an unknown tag was refused
C20_WitnessRaised ==
    /\ call.op = "pixel_to_world_3d"
    /\ call.z_level = "table_surface"
    /\ ~result.ok

\* the table level was asked for a corner pixel
C20_Witness ==
    /\ call.op = "pixel_to_world_3d"
    /\ call.z_level = "table"
    /\ call.pixel = <<223, 223>>
    /\ result.ok
    /\ result.value[3] = 860

\* C21: get_initial_object_positions_3d returns exactly the five landmarks,
\* the three objects at z = 0.86, the gripper start at 0.88 and the target
\* zone at 0.02, and reset() creates each body at the pose returned for it: a
\* body of mass 0 is still there when reset() returns, a dynamic body has kept
\* its x and y and has not risen.
C21_InitialPoses ==
    (call.op = "reset" /\ result.ok) =>
        LET pos == get_initial_object_positions_3d(get_manual_positions(call.arg))
        IN /\ DOMAIN pos = Labels
           /\ pos.object_to_pickup[3] = 860
           /\ pos.obstacle_1[3] = 860
           /\ pos.obstacle_2[3] = 860
           /\ pos.gripper_start[3] = 880
           /\ pos.target_zone[3] = 20
           /\ bodies[target_marker_id].pos = pos.target_zone
           /\ bodies[gripper_id].pos = pos.gripper_start
           /\ gripper_pos = pos.gripper_start
           /\ \A l \in {"object_to_pickup", "obstacle_1", "obstacle_2"} :
                 LET b == bodies[CASE l = "object_to_pickup" -> object_to_pickup_id
                                   [] l = "obstacle_1" -> obstacle_1_id
                                   [] l = "obstacle_2" -> obstacle_2_id]
                 IN /\ b.pos[1] = pos[l][1]
                    /\ b.pos[2] = pos[l][2]
                    /\ b.pos[3] <= pos[l][3]
                    /\ b.mass = MARKER_MASS

\* reset(2) has returned with the pick object still at the height it was
\* created at
C21_Witness ==
    /\ call.op = "reset"
    /\ call.arg = 2
    /\ result.ok
    /\ bodies[object_to_pickup_id].pos = <<-120, 0, 860>>
    /\ bodies[target_marker_id].pos[3] = 20

\* C23: reset(world_id) with an unknown world id raises before any teardown:
\* bodies, constraints, ids, grasp state, flag, gripper position and
\* step_count are unchanged, and the episode can go on with a step().
C23_UnknownWorldLeavesAll ==
    /\ [][(call'.op = "reset" /\ UnknownWorld(call'.arg)) =>
              /\ ~result'.ok
              /\ UNCHANGED <<engineVars, idVars, simVars>>]_vars
    /\ []((/\ call.op = "reset"
           /\ UnknownWorld(call.arg)
           /\ gripper_id # None
           /\ step_count < MaxSteps) => ENABLED Step(0, 0, 10))

\* reset(4) was refused during a grasp
C23_Witness ==
    /\ call.op = "reset"
    /\ call.arg = 4
    /\ ~result.ok
    /\ grasp_constraint # None
    /\ constraints # {}
    /\ step_count > 0

\* some movable object is within the grasp threshold of the position pos
InRange(pos) ==
    \E o \in MovableIds : Dist2(pos, bodies[o].pos) < Threshold2

\* C30: a step() commanded closed with nothing grasped, coming after a step
\* that was already commanded closed or after the step that released an
\* object, grasps exactly when some movable object is within 0.06 m of the
\* gripper; no open command in between is needed.
C30_LevelTriggered ==
    [][(/\ call'.op = "step"
        /\ result'.ok
        /\ call'.arg > 5
        /\ grasped_object_id = None
        /\ call.op = "step"
        /\ gripper_closed \/ teardown = "live")
            => (grasped_object_id' # None <=> InRange(gripper_pos'))]_vars

\* the gripper is closed on nothing, and closing again after a move grasps
C30_Witness ==
    /\ StepReturned
    /\ gripper_closed
    /\ grasped_object_id = None
    /\ ENABLED (Step(-30, 0, 10) /\ grasped_object_id' # None)

\* an object was just released, and closing again grasps it at once
C30_WitnessRegrasp ==
    /\ StepReturned
    /\ teardown = "live"
    /\ ENABLED (Step(0, 0, 10) /\ grasped_object_id' # None)

\* C22: get_world_calibration(world_id) returns the registry's entry for
\* world_id, whose world_id field is the id asked for, when the registry has
\* one; for any other id it raises with the registry's ids in the message;
\* it never changes the registry.
C22_RegistryLookup ==
    [][call'.op = "get_world_calibration" =>
          /\ world_calibrations' = world_calibrations
          /\ IF call'.arg \in DOMAIN world_calibrations
             THEN /\ result'.ok
                  /\ result'.value = world_calibrations[call'.arg]
                  /\ result'.value.world_id = call'.arg
             ELSE /\ ~result'.ok
                  /\ result'.available = DOMAIN world_calibrations]_vars

\* world 4 was asked for and refused with the three valid ids
C22_Witness ==
    /\ call.op = "get_world_calibration"
    /\ call.arg = 4
    /\ ~result.ok
    /\ result.available = {1, 2, 3}

\* world 2 was asked for and its entry returned
C22_WitnessFound ==
    /\ call.op = "get_world_calibration"
    /\ call.arg = 2
    /\ result.ok
    /\ result.value.pixels_per_meter = 165

\* C24: constructing a CoordinateMapper from an annotation set that lacks one
\* of the five labels raises; no mapper is built from it.
C24_IncompleteAnnotationRefused ==
    (call.op = "CoordinateMapper" /\ ~(Labels \subseteq DOMAIN call.arg)) =>
        /\ ~result.ok
        /\ ~MapperBuilt

\* C29: pixels_per_meter is positive in every registry entry and in every
\* mapper, the one built from four table landmarks on one pixel included, and
\* pixel_to_world_3d with a known z_level never fails on a division.
C29_PositiveScale ==
    /\ \A w \in DOMAIN world_calibrations : world_calibrations[w].pixels_per_meter > 0
    /\ (call.op = "CoordinateMapper" /\ result.ok) => result.value.pixels_per_table > 0
    /\ (call.op = "pixel_to_world_3d" /\ ~UnknownLevel(call.z_level)) => result.ok

\* a pixel was converted by a mapper whose table landmarks share one pixel:
\* the default of 100 px/m was used
C29_Witness ==
    /\ call.op = "pixel_to_world_3d"
    /\ table_span_px(call.mp) = 0
    /\ call.pixel = <<223, 0>>
    /\ call.z_level = "floor"
    /\ result.ok
    /\ result.value = <<1230, 1000, 20>>

\* C25: after close() every reset(), step(), get_state() and close() raises,
\* returns no snapshot and leaves the gripper position, the flags, the grasp
\* state and the step counter as they were.
C25_ClosedInstanceUntouched ==
    [][~connected =>
          /\ ~result'.ok
          /\ UNCHANGED <<gripper_pos, gripper_closed, grasped_object_id, step_count>>]_vars

\* C28: for every snapshot reset(), step() or get_state() returned and every
\* world of the registry, build_observation reads only attributes the
\* snapshot has and gets through the projection of the gripper and the
\* object.
C28_SnapshotSchema ==
    (call.op = "build_observation" /\ call.arg \in DOMAIN world_calibrations)
        => result.ok

\* C26: with several instances alive in one process, the collision shapes of
\* each (like its bodies, constraints and ticks) are created in the
\* instance's own engine client, never in a default client.
C26_OwnClient ==
    \A i \in SimIds :
        sims[i].status \in {"alive", "episode"} => sims[i].shape_client = sims[i].client

\* the ids a newly constructed instance gives its five bodies in reset()
FirstEpisodeIds ==
    CreateBodies((0 :> TableBody) @@ (1 :> FloorBody), <<>>,
                 NewBodies(get_initial_object_positions_3d(get_manual_positions(1)))).ids

C31_StepOrder ==
    [][(call'.op = "step" /\ result'.ok) =>
        LET near == {k \in 1..3 :
                        WithinThreshold(gripper_pos', bodies[GraspableObjects[k]].pos)}
        IN /\ InWorkspace(gripper_pos')
           /\ bodies'[gripper_id].pos = gripper_pos'
           /\ GraspHappens => \E k \in near : grasped_object_id' = GraspableObjects[k]
           /\ (gripper_closed' /\ grasped_object_id = None /\ near # {})
                 => grasped_object_id' # None
           /\ (grasped_object_id # None /\ grasped_object_id' = None)
                 => LET old == bodies[grasped_object_id].pos
                        new == bodies'[grasped_object_id].pos
                    IN /\ constraints' = {}
                       /\ new[1] = old[1] /\ new[2] = old[2]
                       /\ new[3] \in {old[3], RestZ(old)}
           /\ step_count' = step_count + 1
           /\ result'.state.step_count = step_count + 1]_vars

\* a grasp on a step that moved the gripper into range of an object that the
\* substeps of the same step could have moved out of range
C31_Witness ==
    /\ StepReturned
    /\ step_count >= 2
    /\ grasped_object_id # None
    /\ teardown = "none"
    /\ gripper_pos[1] # 0

\* a release on a step that moved the gripper away from the released object
C31_WitnessRelease ==
    /\ StepReturned
    /\ teardown = "live"
    /\ \E k \in 1..3 : bodies[GraspableObjects[k]].pos[1] # gripper_pos[1]
                         /\ bodies[GraspableObjects[k]].pos[3] = GRIPPER_START_Z - 85

\* C32: after every step() the gripper body in the engine is at the clamped
\* gripper position the returned snapshot reports; the pose is written on
\* every tick, a tick with zero delta included, and the substeps leave it.
C32_GripperBodyAtGripperPos ==
    StepReturned =>
        /\ bodies[gripper_id].pos = result.state.gripper_pos
        /\ result.state.gripper_pos = gripper_pos
        /\ InWorkspace(gripper_pos)

\* a step that follows another one and ends at the x bound, where the clamp
\* acted
C32_Witness ==
    /\ StepReturned
    /\ step_count >= 2
    /\ gripper_pos[1] = X_MAX
    /\ bodies[gripper_id].pos[1] = X_MAX

\* C33: after every successful reset() the engine holds the table, the floor
\* and exactly five per-episode bodies, the five tracked ids are distinct
\* live bodies, and no body of an earlier episode is left.
C33_NoBodyLeak ==
    (call.op = "reset" /\ result.ok) =>
        LET ids == {object_to_pickup_id, obstacle_1_id, obstacle_2_id,
                    target_marker_id, gripper_id}
        IN /\ Cardinality(ids) = 5
           /\ None \notin ids
           /\ DOMAIN bodies = {0, 1} \cup ids
           /\ bodies[0] = TableBody /\ bodies[1] = FloorBody
           /\ Cardinality({b \in ids : bodies[b].mass > 0}) = 3

\* a reset() that had five bodies of an earlier episode to remove
C33_Witness ==
    /\ call.op = "reset" /\ result.ok
    /\ freeIds = <<>>
    /\ object_to_pickup_id = 6

\* C35: no step() changes the gripper's z, so every snapshot of an episode
\* reports the hover height 0.88 m that reset() assigned.
C35_GripperZConstant ==
    /\ [][call'.op = "step" => gripper_pos'[3] = gripper_pos[3]]_vars
    /\ [](result.ok => /\ result.state.gripper_pos[3] = GRIPPER_START_Z
                       /\ gripper_pos[3] = GRIPPER_START_Z)

\* a snapshot after steps that were clamped in x and in y
C35_Witness ==
    /\ StepReturned
    /\ gripper_pos = <<X_MAX, Y_MIN, GRIPPER_START_Z>>

\* the part of C34 about the states between operations: the two grasp fields
\* are set together and the engine holds the instance's constraint and no other
GraspFieldsAgree ==
    /\ grasp_constraint # None <=> grasped_object_id # None
    /\ Cardinality(constraints) <= 1
    /\ \A c \in constraints : c.uid = grasp_constraint
    /\ grasp_constraint # None => \E c \in constraints : c.uid = grasp_constraint

\* C34: between operations grasp_constraint is set exactly when
\* grasped_object_id is, at most one constraint of the instance is live, and
\* every constraint the instance creates is removed exactly once: no
\* removeConstraint is issued for a constraint that is already removed.
C34_ConstraintLifecycle ==
    /\ GraspFieldsAgree
    /\ teardown # "gone"

\* the larger of the x-span and the y-span of the four on-table landmarks
LargerSpan(positions) ==
    LET pts == {positions[l] : l \in Labels \ {"target_zone"}}
        sx  == MaxOf({q[1] : q \in pts}) - MinOf({q[1] : q \in pts})
        sy  == MaxOf({q[2] : q \in pts}) - MinOf({q[2] : q \in pts})
    IN IF sx >= sy THEN sx ELSE sy

\* the target_zone landmark has no influence on the inferred centre and scale
TargetZoneIgnored ==
    (call.op = "CoordinateMapper" /\ result.ok) =>
        \A other \in Annotations :
            (\A l \in Labels \ {"target_zone"} : other[l] = call.arg[l])
                => /\ table_center_px(other) = result.value.table_center_px
                   /\ PixelsPerTable(table_span_px(other)) = result.value.pixels_per_table

\* C37: for every annotation set the inferred scale is the larger span of the
\* four on-table landmarks divided by the table diameter 0.6 m (so the pixels
\* per table diameter are that span), and the target_zone landmark has no
\* influence on the inferred centre or scale.
C37_InferredScale ==
    /\ (call.op = "CoordinateMapper" /\ result.ok)
          => result.value.pixels_per_table = LargerSpan(call.arg)
    /\ TargetZoneIgnored

\* C37 for the annotation sets whose on-table landmarks are not all on one pixel
ScaleOfPositiveSpan ==
    (call.op = "CoordinateMapper" /\ result.ok /\ LargerSpan(call.arg) > 0)
        => result.value.pixels_per_table = LargerSpan(call.arg)

\* a CalibrationRegistry entry with the centre and the scale of the mapper
\* (pixels per metre = pixels per table diameter / 0.6)
CalibrationOf(mp) ==
    [table_center_px  |-> table_center_px(mp),
     pixels_per_meter |-> (PixelsPerTable(table_span_px(mp)) * 1000) \div TABLE_DIAMETER_MM]

\* the mapper's scale is a whole number of pixels per metre
WholeScale(mp) == (PixelsPerTable(table_span_px(mp)) * 1000) % TABLE_DIAMETER_MM = 0

\* the first half of C38: with equal centre and scale the two projections agree
SameFunction ==
    (call.op = "world_to_pixel_2d" /\ result.ok /\ WholeScale(call.mp))
        => world_to_pixel(call.world, CalibrationOf(call.mp)) = result.value

\* C38: ObservationBuilder.world_to_pixel(pos, cal) equals world_to_pixel_2d(pos)
\* of a mapper with the centre and the scale of cal, and for each scene id the
\* mapper reset() builds from the scene's annotation and the scene's registry
\* entry project a world position to the same pixel.
C38_SameProjection ==
    /\ SameFunction
    /\ (call.op = "world_to_pixel_2d" /\ result.ok)
          => \A w \in DOMAIN world_calibrations :
                (w \in DOMAIN MANUAL_CALIBRATIONS /\ call.mp = get_manual_positions(w))
                    => world_to_pixel(call.world, world_calibrations[w]) = result.value

\* C36: a step() whose action lacks 'delta_x', 'delta_y' or 'gripper' fails
\* and leaves gripper position, gripper_closed, grasp state and step_count as
\* they were before the call.
C36_MalformedLeavesAll ==
    [][(call'.op = "step" /\ "missing" \in DOMAIN call')
         => /\ ~result'.ok
            /\ UNCHANGED <<gripper_pos, gripper_closed, grasped_object_id,
                           grasp_constraint, step_count>>]_vars

\* an annotation as the tool may store it: the five labels, pixels of the
\* 224 x 224 image
StoredAnnotation(ann) ==
    /\ DOMAIN ann = Labels
    /\ \A l \in Labels : /\ ann[l][1] \in 0..(IMAGE_SIZE - 1)
                          /\ ann[l][2] \in 0..(IMAGE_SIZE - 1)

\* C39: whatever the clicks and the 's', 'r', 'q' keys, the click list never
\* has more than five entries, an annotation is stored for a world only when
\* exactly five clicks are present, and every stored annotation has exactly
\* the five labels, assigned in click order, with coordinates in [0, 224).
\* Label i holds click i scaled to 224 x 224, to within the one pixel that
\* int() may lose.
C39_FiveClicks ==
    /\ [](/\ Len(clicks) <= 5
          /\ \A w \in DOMAIN calibrations : StoredAnnotation(calibrations[w])
          /\ \A w \in DOMAIN saved_file : StoredAnnotation(saved_file[w]))
    /\ [][calibrations' # calibrations
           => /\ Len(clicks) = 5
              /\ DOMAIN calibrations' = DOMAIN calibrations \cup {current_world}
              /\ \A w \in DOMAIN calibrations : calibrations'[w] = calibrations[w]
              /\ \A i \in 1..5 :
                    LET stored == calibrations'[current_world][ToolLabels[i]]
                    IN /\ stored[1] * base_image[1] <= clicks[i][1] * 224
                       /\ clicks[i][1] * 224 < (stored[1] + 2) * base_image[1]
                       /\ stored[2] * base_image[2] <= clicks[i][2] * 224
                       /\ clicks[i][2] * 224 < (stored[2] + 2) * base_image[2]]_vars

\* a session that stored all three worlds, with clicks on the last pixel of a
\* shrunk image among them, and wrote the file
C39_Witness ==
    /\ tool_pc = "finished"
    /\ DOMAIN saved_file = {1, 2, 3}
    /\ base_image = <<800, 600>>
    /\ saved_file[3]["target_zone"] = <<223, 223>>
    /\ saved_file[3]["object_to_pickup"] = <<0, 0>>

====
